---------------------------- MODULE Spec2Model ----------------------------
(***************************************************************************)
(* Session lifecycle orchestrator of gamgui: SessionService of the         *)
(* gamgui-server variant and of the backend variant, over the session      *)
(* store (Firestore) and the cluster (pods, services, ingresses).          *)
(*                                                                         *)
(* A deployment runs one variant; `variant` is fixed by Init.              *)
(* All handlers are coroutines on one event loop: a handler runs           *)
(* atomically up to a real suspension point.  The repository methods and   *)
(* the kubernetes client calls are synchronous inside `async def`, so the  *)
(* only suspension point of the modelled handlers is the asyncio.sleep of  *)
(* the readiness wait.                                                     *)
(*                                                                         *)
(* Environment: every cluster API call and every store write may fail      *)
(* (the set F of failing calls is chosen per handler run); store reads     *)
(* succeed.  A delete/read of a missing resource answers 404.              *)
(*                                                                         *)
(* GatewaySpec is the Socket.IO terminal gateway of the backend            *)
(* (SocketIOService, SocketIOController, AuditService): sockets connect,   *)
(* join a session, send input and resize events and disconnect, while one  *)
(* relay task per exec stream reads the pod's output.  The handlers have   *)
(* no suspension point between a check of active_connections and the use   *)
(* of the entry, so each is one step; the relay suspends between passes    *)
(* of its loop.                                                            *)
(*                                                                         *)
(* SidecarSpec is the /ws endpoint of gamgui-session: authentication of    *)
(* the websocket, then the message loop.                                   *)
(***************************************************************************)
EXTENDS Integers, FiniteSets, Sequences, TLC

VARIABLES
    variant,    \* "server" (gamgui-server) or "backend"
    sessions,   \* the session store: session id -> stored record
    pods,       \* cluster: session id -> pod state
    services,   \* cluster: ids having a ClusterIP service
    ingresses,  \* cluster: ids having an ingress rule
    tasks,      \* gamgui-server create_session coroutines in flight
    last,       \* outcome of the handler that returned last
    \* backend Socket.IO gateway (SocketIOService / SocketIOController)
    sockets,            \* socket id -> "new", "open" (connect accepted), "closed"
    sio_sessions,       \* sio.save_session: socket id -> user payload
    active_connections, \* socket id -> connection info (bound sockets only)
    command_buffers,    \* socket id -> command typed so far
    streams,            \* exec streams opened by create_exec_stream
    relays,             \* _read_from_exec_stream tasks, one per stream opened
    outputs,            \* stream -> chunks emitted as "output" events to its socket
    audit,              \* AuditService: entries written to the audit log
    glast,              \* outcome of the gateway handler that ran last
    \* gamgui-session sidecar (/ws endpoint)
    websockets,         \* websocket id -> state of the connection
    \* backend KubernetesService.wait_for_pod_ready
    wait                \* the call in flight and its outcome

sessionVars == <<variant, sessions, pods, services, ingresses, tasks, last>>

gatewayVars == <<sockets, sio_sessions, active_connections, command_buffers, streams,
                 relays, outputs, audit, glast>>

vars == <<variant, sessions, pods, services, ingresses, tasks, last, sockets,
          sio_sessions, active_connections, command_buffers, streams, relays, outputs,
          audit, glast, websockets, wait>>

\* what the session services and the gateway do not touch
otherVars == <<websockets, wait>>

----------------------------------------------------------------------------
(* Bounds and configuration *)

Users == {"u1", "u2"}
NoUser == "none"                    \* user_id=None (no ownership filter)
SessIds == {"s1", "s2"}
SeedIds == {"s1", "s2"}             \* ids of records found in the backend store
Tasks == {"t1", "t2"}

\* environment.MAX_SESSIONS_PER_USER (deployment setting, at least 1)
MAX_SESSIONS_PER_USER == 1

\* max_attempts of _wait_for_pod_ready (timeout_seconds // poll_interval)
WaitAttempts == 2

\* BaseRepository.update(self, entity): positional parameters after self
UpdateParams == 1

----------------------------------------------------------------------------
(* Vocabulary *)

\* backend schemas.common.SessionStatus
BackendStatuses == {"Pending", "Running", "Succeeded", "Failed", "Unknown"}

\* "Ready" is phase Running with the containers ready
PodStates == {"absent", "Pending", "Running", "Ready", "Succeeded", "Failed", "Unknown"}

Phase(p) == IF p = "Ready" THEN "Running" ELSE p

IdleTask == [pc |-> "idle", user |-> NoUser, sid |-> "none", polls |-> 0, active |-> 0]

\* Outcome of a handler run:
\*   caller/owner  the user_id argument and the stored owner (NoUser: no record)
\*   result        "ok" (a session / True), "none" (None), "false" (False), "error"
\*   code          error_code of the raised APIException
\*   status        status of the returned session object
\*   was, stored   stored status when the handler started / when it returned
\*   active        the caller's active sessions when create_session was called
\*   calls         cluster API calls and store writes the run attempted
\*   faults        the calls the environment fails (non-404) during the run
\*   wrote         a store write of the run took effect (record, status or timestamp)
\*   gone          the pod was missing when the handler started
\*   ready         the readiness wait observed the containers ready
NoOp == [op |-> "none", sid |-> "none", caller |-> NoUser, owner |-> NoUser,
         result |-> "none", code |-> "none", status |-> "none",
         was |-> "none", stored |-> "none", active |-> 0,
         calls |-> {}, faults |-> {}, wrote |-> FALSE, gone |-> FALSE, ready |-> FALSE]

(* The store as a function over the stored ids *)
Put(store, sid, rec) ==
    [x \in (DOMAIN store) \cup {sid} |-> IF x = sid THEN rec ELSE store[x]]

Remove(store, sid) == [x \in (DOMAIN store) \ {sid} |-> store[x]]

----------------------------------------------------------------------------
(* Session store *)

\* get_by_user + the status filter of create_session
ActiveSessions(store, u) ==
    {s \in DOMAIN store : store[s].user_id = u /\ store[s].status \in {"creating", "running"}}

\* a call self.update(session_id, update_data) binds only if update takes two parameters
UpdateBinds(nargs) == nargs = UpdateParams

\* gamgui-server SessionRepository.update_status
ServerUpdateStatus(store, sid, status, F) ==
    IF ~UpdateBinds(2) \/ "store_update" \in F
    THEN [raised |-> TRUE, store |-> store]
    ELSE [raised |-> FALSE, store |-> Put(store, sid, [store[sid] EXCEPT !.status = status])]

\* gamgui-server SessionRepository.update_last_activity (the timestamp is
\* abstracted: the write shows as `wrote`)
ServerUpdateLastActivity(store, sid, F) ==
    IF ~UpdateBinds(2) \/ "store_update" \in F
    THEN [raised |-> TRUE, store |-> store]
    ELSE [raised |-> FALSE, store |-> store]

----------------------------------------------------------------------------
(* Cluster *)

\* uuid4: an id never used before; the first such id stands for any of them
Fresh(sid) ==
    /\ sid \notin DOMAIN sessions
    /\ pods[sid] = "absent"
    /\ sid \notin services
    /\ sid \notin ingresses
    /\ \A t \in Tasks : tasks[t].sid # sid

IdOrder == <<"s1", "s2">>

FreshIndexes == {i \in DOMAIN IdOrder : Fresh(IdOrder[i])}

FreshId == IdOrder[CHOOSE i \in FreshIndexes : \A j \in FreshIndexes : i <= j]

\* gamgui-server KubernetesService.get_pod_status: phase -> session status,
\* 404 -> stopped
ServerPodStatus(p) ==
    CASE p = "absent" -> "stopped"
      [] Phase(p) = "Pending" -> "creating"
      [] Phase(p) = "Running" -> "running"
      [] Phase(p) = "Succeeded" -> "stopped"
      [] OTHER -> "error"

\* The three deletes of gamgui-server in one try block: delete_session_pod,
\* delete_session_service, delete_session_ingress.  A missing resource is
\* success; a failing call raises and ends the block.
ServerDeleteResources(sid, F, P, S, I) ==
    IF "delete_pod" \in F
    THEN [raised |-> TRUE, pods |-> P, services |-> S, ingresses |-> I,
          calls |-> {"delete_pod"}]
    ELSE IF "delete_service" \in F
    THEN [raised |-> TRUE, pods |-> [P EXCEPT ![sid] = "absent"], services |-> S,
          ingresses |-> I, calls |-> {"delete_pod", "delete_service"}]
    ELSE IF "delete_ingress" \in F
    THEN [raised |-> TRUE, pods |-> [P EXCEPT ![sid] = "absent"], services |-> S \ {sid},
          ingresses |-> I, calls |-> {"delete_pod", "delete_service", "delete_ingress"}]
    ELSE [raised |-> FALSE, pods |-> [P EXCEPT ![sid] = "absent"], services |-> S \ {sid},
          ingresses |-> I \ {sid},
          calls |-> {"delete_pod", "delete_service", "delete_ingress"}]

----------------------------------------------------------------------------
(* gamgui-server SessionService.create_session *)

\* coroutine slots are interchangeable: a call takes the first idle one
TaskBefore(a, b) == a = "t1" /\ b = "t2"

LimitReachedOffByOne(store, u) ==
    Cardinality(ActiveSessions(store, u)) > MAX_SESSIONS_PER_USER

\* the limit check of create_session
LimitReached(store, u) == Cardinality(ActiveSessions(store, u)) >= MAX_SESSIONS_PER_USER

\* the status create_session stores and returns once create_session_pod returned;
\* `ready` tells whether _wait_for_pod_ready saw the containers ready or ran out
ServerCreatedStatus(ready) == "running"

\* the inner except block: clean up, then raise SESSION_CREATION_FAILED
\* (no step of the inner try raises an APIException)
ServerCreateFailed(u, sid, F, P, S, I, made, active) ==
    LET c == ServerDeleteResources(sid, F, P, S, I) IN
    /\ F \subseteq made \cup c.calls
    /\ pods' = c.pods
    /\ services' = c.services
    /\ ingresses' = c.ingresses
    /\ last' = [NoOp EXCEPT !.op = "create", !.sid = sid, !.caller = u,
                            !.result = "error", !.code = "SESSION_CREATION_FAILED",
                            !.calls = made \cup c.calls, !.faults = F, !.active = active]

\* create_session from its start to the first sleep of the readiness wait
ServerCreateStart(t, u) ==
    /\ variant = "server"
    /\ tasks[t].pc = "idle"
    /\ \A other \in Tasks : TaskBefore(other, t) => tasks[other].pc # "idle"
    /\ IF LimitReached(sessions, u)
       THEN /\ last' = [NoOp EXCEPT !.op = "create", !.caller = u, !.result = "error",
                                    !.code = "SESSION_LIMIT_REACHED",
                                    !.active = Cardinality(ActiveSessions(sessions, u))]
            /\ UNCHANGED <<variant, sessions, pods, services, ingresses, tasks>>
       ELSE /\ FreshIndexes # {}
            /\ \E F \in SUBSET {"create_pod", "create_service", "create_ingress",
                                 "delete_pod", "delete_service", "delete_ingress"} :
                 LET sid == FreshId
                     P1 == [pods EXCEPT ![sid] = "Pending"]
                     S1 == services \cup {sid}
                     I1 == ingresses \cup {sid}
                     n == Cardinality(ActiveSessions(sessions, u))
                 IN
                 IF "create_pod" \in F
                 THEN /\ ServerCreateFailed(u, sid, F, pods, services, ingresses,
                                            {"create_pod"}, n)
                      /\ UNCHANGED <<variant, sessions, tasks>>
                 ELSE IF "create_service" \in F
                 THEN /\ ServerCreateFailed(u, sid, F, P1, services, ingresses,
                                            {"create_pod", "create_service"}, n)
                      /\ UNCHANGED <<variant, sessions, tasks>>
                 ELSE IF "create_ingress" \in F
                 THEN /\ ServerCreateFailed(u, sid, F, P1, S1, ingresses,
                                            {"create_pod", "create_service", "create_ingress"}, n)
                      /\ UNCHANGED <<variant, sessions, tasks>>
                 ELSE \* first poll: the new pod is not ready (or the read fails); sleep
                      /\ F = {}
                      /\ pods' = P1
                      /\ services' = S1
                      /\ ingresses' = I1
                      /\ tasks' = [tasks EXCEPT ![t] =
                                     [pc |-> "waiting", user |-> u, sid |-> sid, polls |-> 1,
                                      active |-> n]]
                      /\ UNCHANGED <<variant, sessions, last>>

\* the rest of create_session once create_session_pod returned: build the
\* record, repository.create, return; on a failed create the inner except block
ServerCreateFinish(t, ready, F) ==
    LET u == tasks[t].user
        sid == tasks[t].sid
        made == {"create_pod", "create_service", "create_ingress", "read_pod", "store_create"}
    IN
    /\ tasks' = [tasks EXCEPT ![t] = IdleTask]
    /\ IF "store_create" \in F
       THEN /\ ServerCreateFailed(u, sid, F, pods, services, ingresses, made,
                                  tasks[t].active)
            /\ UNCHANGED <<variant, sessions>>
       ELSE /\ F = {}
            /\ sessions' = Put(sessions, sid,
                               [user_id |-> u, status |-> ServerCreatedStatus(ready)])
            /\ last' = [NoOp EXCEPT !.op = "create", !.sid = sid, !.caller = u,
                                    !.result = "ok", !.status = ServerCreatedStatus(ready),
                                    !.stored = ServerCreatedStatus(ready),
                                    !.active = tasks[t].active,
                                    !.calls = made, !.faults = F, !.wrote = TRUE,
                                    !.ready = ready]
            /\ UNCHANGED <<variant, pods, services, ingresses>>

\* create_session resumed after a sleep of _wait_for_pod_ready: the next poll,
\* or the end of the wait, and then the rest of the handler
ServerCreatePoll(t) ==
    /\ variant = "server"
    /\ tasks[t].pc = "waiting"
    /\ \E F \in SUBSET {"read_pod", "store_create",
                         "delete_pod", "delete_service", "delete_ingress"} :
         IF tasks[t].polls >= WaitAttempts
         THEN "read_pod" \notin F /\ ServerCreateFinish(t, FALSE, F)
         ELSE IF "read_pod" \notin F /\ pods[tasks[t].sid] = "Ready"
         THEN ServerCreateFinish(t, TRUE, F)
         ELSE /\ F \subseteq {"read_pod"}
              /\ tasks' = [tasks EXCEPT ![t].polls = @ + 1]
              /\ UNCHANGED <<variant, sessions, pods, services, ingresses, last>>

----------------------------------------------------------------------------
(* gamgui-server SessionService.get_session / delete_session *)

\* `if user_id and db_session.user_id != user_id`
ServerDenied(rec, caller) == caller # NoUser /\ rec.user_id # caller

Started(op, sid, caller) ==
    [NoOp EXCEPT !.op = op, !.sid = sid, !.caller = caller,
                 !.owner = IF sid \in DOMAIN sessions THEN sessions[sid].user_id ELSE NoUser,
                 !.was = IF sid \in DOMAIN sessions THEN sessions[sid].status ELSE "none",
                 !.stored = IF sid \in DOMAIN sessions THEN sessions[sid].status ELSE "none",
                 !.gone = (pods[sid] = "absent")]

ServerGetSession(sid, caller) ==
    /\ variant = "server"
    /\ \E F \in SUBSET {"read_pod", "store_update"} :
         LET begin == [Started("get", sid, caller) EXCEPT !.faults = F] IN
         IF sid \notin DOMAIN sessions \/ ServerDenied(sessions[sid], caller)
         THEN /\ F = {}
              /\ last' = begin
              /\ UNCHANGED sessions
         ELSE LET act == ServerUpdateLastActivity(sessions, sid, F)
                  seen == ServerPodStatus(pods[sid])
                  upd == ServerUpdateStatus(act.store, sid, seen, F)
              IN
              IF act.raised
              THEN \* the outer except: log and return None
                   /\ F \subseteq {"store_update"}
                   /\ last' = [begin EXCEPT !.calls = {"store_update"}]
                   /\ UNCHANGED sessions
              ELSE IF "read_pod" \in F
              THEN \* get_pod_status raised: keep the stored status
                   /\ last' = [begin EXCEPT !.result = "ok", !.status = sessions[sid].status,
                                            !.calls = {"store_update", "read_pod"},
                                            !.wrote = TRUE]
                   /\ sessions' = act.store
              ELSE IF sessions[sid].status = seen
              THEN /\ last' = [begin EXCEPT !.result = "ok", !.status = seen,
                                            !.calls = {"store_update", "read_pod"},
                                            !.wrote = TRUE]
                   /\ sessions' = act.store
              ELSE \* the object's status is set before update_status is tried
                   /\ last' = [begin EXCEPT !.result = "ok", !.status = seen,
                                            !.stored = upd.store[sid].status,
                                            !.calls = {"store_update", "read_pod"},
                                            !.wrote = TRUE]
                   /\ sessions' = upd.store
    /\ UNCHANGED <<variant, pods, services, ingresses, tasks>>

ServerDeleteSession(sid, caller) ==
    /\ variant = "server"
    /\ \E F \in SUBSET {"delete_pod", "delete_service", "delete_ingress",
                         "store_update", "store_delete"} :
         LET begin == [Started("delete", sid, caller) EXCEPT !.faults = F] IN
         IF sid \notin DOMAIN sessions \/ ServerDenied(sessions[sid], caller)
         THEN /\ F = {}
              /\ last' = [begin EXCEPT !.result = "false"]
              /\ UNCHANGED <<sessions, pods, services, ingresses>>
         ELSE LET stop == ServerUpdateStatus(sessions, sid, "stopping", F)
                  del == ServerDeleteResources(sid, F, pods, services, ingresses)
                  err == ServerUpdateStatus(stop.store, sid, "error", F)
              IN
              IF stop.raised
              THEN \* the outer except Exception
                   /\ F \subseteq {"store_update"}
                   /\ last' = [begin EXCEPT !.result = "error",
                                            !.code = "SESSION_DELETION_FAILED",
                                            !.calls = {"store_update"}]
                   /\ UNCHANGED <<sessions, pods, services, ingresses>>
              ELSE IF del.raised \/ "store_delete" \in F
              THEN \* the inner except Exception: mark as error, keep the record
                   /\ del.raised => "store_delete" \notin F
                   /\ F \subseteq del.calls \cup {"store_delete"}
                   /\ last' = [begin EXCEPT !.result = "error",
                                            !.code = "SESSION_DELETION_FAILED",
                                            !.stored = err.store[sid].status,
                                            !.calls = {"store_update"} \cup del.calls
                                               \cup (IF del.raised THEN {} ELSE {"store_delete"}),
                                            !.wrote = TRUE]
                   /\ sessions' = err.store
                   /\ pods' = del.pods
                   /\ services' = del.services
                   /\ ingresses' = del.ingresses
              ELSE /\ last' = [begin EXCEPT !.result = "ok", !.stored = "none",
                                            !.calls = {"store_update", "store_delete"}
                                                      \cup del.calls,
                                            !.wrote = TRUE]
                   /\ sessions' = Remove(stop.store, sid)
                   /\ pods' = del.pods
                   /\ services' = del.services
                   /\ ingresses' = del.ingresses
    /\ UNCHANGED <<variant, tasks>>

----------------------------------------------------------------------------
(* backend SessionService *)

\* parameters of backend KubernetesService.create_session_pod (after self)
CreateSessionPodParams == {"pod_name", "session_id", "user_id", "user_email", "namespace"}

\* keyword arguments of the call in backend create_session
CreateSessionPodKeywords == {"namespace", "session_type"}

CreatePodCallBindsAlways == TRUE

\* an unexpected keyword argument raises TypeError at the call
CreatePodCallBinds == CreateSessionPodKeywords \subseteq CreateSessionPodParams

\* backend KubernetesService.get_pod_status: the phase, None ("none") on 404
\* and on every other error
BackendPodStatus(p, F) ==
    IF p = "absent" \/ "read_pod" \in F THEN "none" ELSE Phase(p)

\* backend KubernetesService.delete_session_pod: True on success and on 404,
\* False on every other error; never raises
BackendDeletePod(sid, F, P) ==
    IF "delete_pod" \in F
    THEN [deleted |-> FALSE, pods |-> P]
    ELSE [deleted |-> TRUE, pods |-> [P EXCEPT ![sid] = "absent"]]

\* backend SessionRepository.update_status: get_by_id, set, self.update(session)
BackendUpdateStatus(store, sid, status, F) ==
    IF "store_update" \in F
    THEN [raised |-> TRUE, store |-> store]
    ELSE IF sid \notin DOMAIN store
    THEN [raised |-> FALSE, store |-> store]
    ELSE [raised |-> FALSE, store |-> Put(store, sid, [store[sid] EXCEPT !.status = status])]

BackendDeniedUnchecked(rec, caller) == rec.user_id # rec.user_id

\* `if session.user_id != user_id`
BackendDenied(rec, caller) == rec.user_id # caller

\* the status create_session gives the session after the readiness wait
BackendCreatedStatus(ready, seen) ==
    IF ready THEN "Running" ELSE IF seen # "none" THEN seen ELSE "Failed"

\* the except Exception block of create_session: delete the pod, then raise
BackendCreateFailed(u, sid, F, P, made, wrote) ==
    /\ pods' = BackendDeletePod(sid, F, P).pods
    /\ last' = [NoOp EXCEPT !.op = "create", !.sid = sid, !.caller = u,
                            !.result = "error", !.code = "SESSION_CREATION_FAILED",
                            !.calls = made \cup {"delete_pod"}, !.faults = F,
                            !.wrote = wrote, !.stored = IF wrote THEN "Pending" ELSE "none"]

BackendCreateSession(u) ==
    /\ variant = "backend"
    /\ FreshIndexes # {}
    /\ \E F \in SUBSET {"create_pod", "store_create", "store_update", "read_pod",
                         "delete_pod"},
          p \in PodStates \ {"absent"} :
         LET sid == FreshId
             rec == [user_id |-> u, status |-> "Pending"]
             ready == (p = "Ready")
             final == BackendCreatedStatus(ready, BackendPodStatus(p, F))
             upd == BackendUpdateStatus(Put(sessions, sid, rec), sid, final, F)
         IN
         IF ~CreatePodCallBinds
         THEN \* TypeError inside the try block
              /\ p = "Pending"
              /\ F \subseteq {"create_pod", "delete_pod"}
              /\ BackendCreateFailed(u, sid, F, pods, {}, FALSE)
              /\ UNCHANGED sessions
         ELSE IF "create_pod" \in F
         THEN /\ p = "Pending"
              /\ F = {"create_pod"}
              /\ last' = [NoOp EXCEPT !.op = "create", !.sid = sid, !.caller = u,
                                      !.result = "error", !.code = "POD_CREATION_FAILED",
                                      !.calls = {"create_pod"}, !.faults = F]
              /\ UNCHANGED <<sessions, pods>>
         ELSE IF "store_create" \in F
         THEN /\ p = "Pending"
              /\ BackendCreateFailed(u, sid, F, [pods EXCEPT ![sid] = "Pending"],
                                     {"create_pod", "store_create"}, FALSE)
              /\ UNCHANGED sessions
         ELSE IF upd.raised
         THEN /\ BackendCreateFailed(u, sid, F, [pods EXCEPT ![sid] = p],
                                     {"create_pod", "store_create", "read_pod",
                                      "store_update"}, TRUE)
              /\ sessions' = upd.store
         ELSE /\ pods' = [pods EXCEPT ![sid] = p]
              /\ sessions' = upd.store
              /\ last' = [NoOp EXCEPT !.op = "create", !.sid = sid, !.caller = u,
                                      !.result = "ok", !.status = final, !.stored = final,
                                      !.calls = {"create_pod", "store_create", "read_pod",
                                                 "store_update"},
                                      !.faults = F, !.wrote = TRUE, !.ready = ready]
    /\ UNCHANGED <<variant, services, ingresses, tasks>>

ReconcilableAlways(status) == TRUE

\* `if session.status in [SessionStatus.PENDING, SessionStatus.RUNNING]`
Reconcilable(status) == status \in {"Pending", "Running"}

BackendGetSession(sid, caller) ==
    /\ variant = "backend"
    /\ \E F \in SUBSET {"read_pod", "store_update"} :
         LET begin == [Started("get", sid, caller) EXCEPT !.faults = F] IN
         IF sid \notin DOMAIN sessions \/ BackendDenied(sessions[sid], caller)
         THEN /\ F = {}
              /\ last' = begin
              /\ UNCHANGED sessions
         ELSE LET rec == sessions[sid]
                  seen == BackendPodStatus(pods[sid], F)
                  upd == BackendUpdateStatus(sessions, sid, seen, F)
              IN
              IF Reconcilable(rec.status) /\ seen # "none" /\ seen # rec.status
              THEN IF upd.raised
                   THEN /\ last' = [begin EXCEPT !.result = "error",
                                                 !.code = "SESSION_RETRIEVAL_FAILED",
                                                 !.calls = {"read_pod", "store_update"}]
                        /\ UNCHANGED sessions
                   ELSE /\ last' = [begin EXCEPT !.result = "ok", !.status = seen,
                                                 !.stored = seen,
                                                 !.calls = {"read_pod", "store_update"},
                                                 !.wrote = TRUE]
                        /\ sessions' = upd.store
              ELSE /\ "store_update" \notin F
                   /\ ~Reconcilable(rec.status) => F = {}
                   /\ last' = [begin EXCEPT !.result = "ok", !.status = rec.status,
                                            !.calls = IF Reconcilable(rec.status)
                                                      THEN {"read_pod"} ELSE {}]
                   /\ UNCHANGED sessions
    /\ UNCHANGED <<variant, pods, services, ingresses, tasks>>

\* backend SessionService.list_user_sessions: the reconciliation of
\* get_session for every session of the user; the first update_status that
\* raises ends the call with SESSION_LIST_FAILED
BackendListUserSessions(u) ==
    /\ variant = "backend"
    /\ \E F \in SUBSET {"read_pod", "store_update"} :
         LET mine == {sid \in DOMAIN sessions : sessions[sid].user_id = u}
             seen(sid) == BackendPodStatus(pods[sid], F)
             stale == {sid \in mine : /\ Reconcilable(sessions[sid].status)
                                       /\ seen(sid) # "none"
                                       /\ seen(sid) # sessions[sid].status}
             read == {sid \in mine : Reconcilable(sessions[sid].status)}
             begin == [NoOp EXCEPT !.op = "list", !.caller = u, !.faults = F,
                                   !.calls = (IF read # {} THEN {"read_pod"} ELSE {})
                                               \cup (IF stale # {} THEN {"store_update"}
                                                                   ELSE {})]
         IN
         /\ "read_pod" \in F => read # {}
         /\ "store_update" \in F => stale # {}
         /\ IF stale # {} /\ "store_update" \in F
            THEN /\ last' = [begin EXCEPT !.result = "error", !.code = "SESSION_LIST_FAILED"]
                 /\ UNCHANGED sessions
            ELSE /\ last' = [begin EXCEPT !.result = "ok", !.wrote = (stale # {})]
                 /\ sessions' = [sid \in DOMAIN sessions |->
                                   IF sid \in stale
                                   THEN [sessions[sid] EXCEPT !.status = seen(sid)]
                                   ELSE sessions[sid]]
    /\ UNCHANGED <<variant, pods, services, ingresses, tasks>>

BackendCanEndAlways(status) == TRUE

\* end_session: `if session.status not in [RUNNING, PENDING]` raises
\* SESSION_CANNOT_BE_ENDED
BackendCanEnd(status) == status \in {"Running", "Pending"}

BackendEndSession(sid, caller) ==
    /\ variant = "backend"
    /\ \E F \in SUBSET {"delete_pod", "store_update"} :
         LET begin == [Started("end", sid, caller) EXCEPT !.faults = F] IN
         IF sid \notin DOMAIN sessions \/ BackendDenied(sessions[sid], caller)
         THEN /\ F = {}
              /\ last' = begin
              /\ UNCHANGED <<sessions, pods>>
         ELSE IF ~BackendCanEnd(sessions[sid].status)
         THEN /\ F = {}
              /\ last' = [begin EXCEPT !.result = "error",
                                       !.code = "SESSION_CANNOT_BE_ENDED"]
              /\ UNCHANGED <<sessions, pods>>
         ELSE LET del == BackendDeletePod(sid, F, pods)
                  upd == BackendUpdateStatus(sessions, sid, "Succeeded", F)
              IN
              /\ pods' = del.pods
              /\ sessions' = upd.store
              /\ last' = IF upd.raised
                         THEN [begin EXCEPT !.result = "error", !.code = "SESSION_END_FAILED",
                                            !.calls = {"delete_pod", "store_update"}]
                         ELSE [begin EXCEPT !.result = "ok", !.status = "Succeeded",
                                            !.stored = "Succeeded",
                                            !.calls = {"delete_pod", "store_update"},
                                            !.wrote = TRUE]
    /\ UNCHANGED <<variant, services, ingresses, tasks>>

----------------------------------------------------------------------------
(* The cluster's own steps *)

\* the pod is scheduled, then its containers become ready
PodAdvance(sid) ==
    /\ pods[sid] \in {"Pending", "Running"}
    /\ pods' = [pods EXCEPT ![sid] = IF pods[sid] = "Pending" THEN "Running" ELSE "Ready"]
    /\ UNCHANGED <<variant, sessions, services, ingresses, tasks, last>>

\* the pod ends in a terminal phase, or the node is lost
PodEnds(sid, phase) ==
    /\ pods[sid] \in {"Pending", "Running", "Ready"}
    /\ phase \in {"Succeeded", "Failed", "Unknown"}
    /\ phase = "Succeeded" => pods[sid] # "Pending"
    /\ pods' = [pods EXCEPT ![sid] = phase]
    /\ UNCHANGED <<variant, sessions, services, ingresses, tasks, last>>

\* the pod is removed from the cluster by something else than the service
PodGone(sid) ==
    /\ pods[sid] # "absent"
    /\ pods' = [pods EXCEPT ![sid] = "absent"]
    /\ UNCHANGED <<variant, sessions, services, ingresses, tasks, last>>

----------------------------------------------------------------------------
(* backend Socket.IO gateway: vocabulary *)

Socks == {"k1"}

\* exec streams opened over a run
MaxStreams == 2

\* traffic of a run: terminal_input events with data and terminal_resize
\* events with both sizes received by bound sockets, and output chunks the
\* pods write to the exec streams
MaxTraffic == 2

\* a claim that a token does not carry
NoClaim == "none"

\* Text is a sequence of pieces; a piece is a word, a blank, a control
\* character, or an assignment key=value
Word(v) == [key |-> "none", value |-> v]

Terminators == {Word("CR"), Word("LF")}          \* "\r", "\n"

Backspaces == {Word("DEL"), Word("BS")}          \* "\x7f", "\x08"

Whitespace == {Word(" ")}

SecretAssignment == [key |-> "password", value |-> "secret123"]

Redacted == "***REDACTED***"

\* the data of the terminal_input events: nothing, one key (a letter, a
\* blank, Enter, Backspace), a pasted assignment, a pasted line with its Enter
Payloads ==
    {<<>>, <<Word("a")>>, <<Word(" ")>>, <<Word("CR")>>, <<Word("DEL")>>,
     <<SecretAssignment>>, <<Word("a"), Word("CR")>>}

\* str.isprintable()
IsPrintable(text) == \A i \in DOMAIN text : text[i] \notin Terminators \cup Backspaces

RECURSIVE LStrip(_)
LStrip(text) ==
    IF text # <<>> /\ Head(text) \in Whitespace THEN LStrip(Tail(text)) ELSE text

Reverse(text) == [i \in 1..Len(text) |-> text[Len(text) + 1 - i]]

\* str.strip()
Strip(text) == Reverse(LStrip(Reverse(LStrip(text))))

\* text[:-1]
DropLast(text) == SubSeq(text, 1, Len(text) - 1)

----------------------------------------------------------------------------
(* backend AuditService *)

\* sensitive_patterns: the capturing groups of each pattern and the keys it
\* matches
SensitivePatterns ==
    << [groups |-> 1, keys |-> {"password", "passwd", "pwd"}],
       [groups |-> 1, keys |-> {"token", "key", "secret"}],
       [groups |-> 0, keys |-> {"--password"}],
       [groups |-> 0, keys |-> {"-p"}],
       [groups |-> 0, keys |-> {"export"}] >>

\* the group the replacement r"\1=***REDACTED***" refers to
TemplateGroup == 1

\* re.sub compiles the replacement against the pattern before it searches:
\* a reference to a group the pattern does not have raises re.error
TemplateCompiles(pattern) == TemplateGroup <= pattern.groups

\* one re.sub over a piece: group 1, "=", the marker
Redact(piece) ==
    IF \E i \in DOMAIN SensitivePatterns : piece.key \in SensitivePatterns[i].keys
    THEN [key |-> piece.key, value |-> Redacted]
    ELSE piece

\* AuditService._filter_sensitive_data
FilterSensitiveData(command) ==
    IF \E i \in DOMAIN SensitivePatterns : ~TemplateCompiles(SensitivePatterns[i])
    THEN [raised |-> TRUE, text |-> command]
    ELSE [raised |-> FALSE, text |-> [i \in DOMAIN command |-> Redact(command[i])]]

AuditCatchesNothing == {}

\* `except Exception` of log_command and log_output
AuditCatches == {"re.error", "log_struct"}

NoAudit == <<>>

\* AuditService.log_command; sinkFails: log_struct raises when it is called
LogCommand(a, user, sess, command, sinkFails) ==
    LET f == FilterSensitiveData(command)
        failure == IF f.raised THEN "re.error"
                   ELSE IF sinkFails THEN "log_struct" ELSE "none"
        entry == [type |-> "command", user_id |-> user, session_id |-> sess,
                  command |-> f.text]
    IN [raised |-> failure \notin AuditCatches \cup {"none"},
        failure |-> failure,
        audit |-> IF failure = "none" THEN Append(a, entry) ELSE a]

\* AuditService.log_output for a buffer of output chunks (every chunk holds
\* text that _clean_output keeps)
LogOutput(a, user, sess, output, sinkFails) ==
    LET failure == IF sinkFails THEN "log_struct" ELSE "none"
        entry == [type |-> "output", user_id |-> user, session_id |-> sess,
                  output |-> output]
    IN [raised |-> failure \notin AuditCatches \cup {"none"},
        failure |-> failure,
        audit |-> IF failure = "none" THEN Append(a, entry) ELSE a]

----------------------------------------------------------------------------
(* backend Socket.IO gateway: connect *)

\* the auth argument of the connect event
NoAuth == [given |-> FALSE, token |-> "none", sub |-> NoClaim, email |-> NoClaim]

NoToken == [given |-> TRUE, token |-> "none", sub |-> NoClaim, email |-> NoClaim]

Signed(kind, sub, email) == [given |-> TRUE, token |-> kind, sub |-> sub, email |-> email]

AuthData ==
    {NoAuth, NoToken, Signed("expired", "u1", "mail"), Signed("malformed", "u1", "mail")}
      \cup {Signed("valid", sub, email) : sub \in Users \cup {NoClaim},
                                          email \in {"mail", NoClaim}}

NoPayload == [sub |-> NoClaim, email |-> NoClaim]

\* SocketIOController.authenticate_socket
AuthenticateSocket(auth) ==
    IF auth.token = "none"
    THEN [refused |-> TRUE, message |-> "Authentication required: token missing",
          user |-> NoPayload]
    ELSE IF auth.token = "expired"
    THEN [refused |-> TRUE, message |-> "Token expired", user |-> NoPayload]
    ELSE IF auth.token = "malformed"
    THEN [refused |-> TRUE, message |-> "Invalid token", user |-> NoPayload]
    ELSE IF auth.email = NoClaim
    THEN [refused |-> TRUE, message |-> "Invalid token: email not found",
          user |-> NoPayload]
    ELSE [refused |-> FALSE, message |-> "none",
          user |-> [sub |-> auth.sub, email |-> auth.email]]

\* Outcome of a gateway handler run:
\*   bound      the socket was in active_connections when the handler started
\*   event      the event the handler emitted to the socket besides output
\*   raised     the exception that left the handler
\*   wrote      the handler wrote to the exec stream (stdin or resize channel)
\*   payload    data of the terminal_input event
\*   before     the command buffer when the handler started
\*   commands   the commands the handler passed to log_command
\*   auditfail  what failed inside the audit call of the run
\*   opened     the handler opened an exec stream
\*   subject    `sub` of the socket's user
\*   read       output chunks a relay iteration read
\*   emitted    output chunks a relay iteration emitted
\*   stream     the exec stream of the relay
\*   flush      the buffer the relay passed to log_output
\*   silent     more than CHUNK_TIMEOUT has passed since output was last read
NoEvent == [op |-> "none", sock |-> "none", bound |-> FALSE, event |-> "none",
            message |-> "none", raised |-> "none", wrote |-> FALSE, payload |-> <<>>,
            before |-> <<>>, commands |-> <<>>, auditfail |-> "none", opened |-> FALSE,
            subject |-> NoClaim, read |-> <<>>, emitted |-> <<>>, stream |-> 0,
            flush |-> <<>>, silent |-> FALSE]

Handled(op, k) ==
    [NoEvent EXCEPT !.op = op, !.sock = k, !.bound = (k \in DOMAIN active_connections),
                    !.subject = sio_sessions[k].sub]

Error(begin, message) == [begin EXCEPT !.event = "error", !.message = message]

\* SocketIOService.connect
Connect(k, auth) ==
    /\ sockets[k] = "new"
    /\ LET res == IF ~auth.given
                  THEN [refused |-> TRUE, message |-> "Authentication required",
                        user |-> NoPayload]
                  ELSE AuthenticateSocket(auth)
       IN IF res.refused
          THEN /\ sockets' = [sockets EXCEPT ![k] = "closed"]
               /\ glast' = [Handled("connect", k) EXCEPT !.raised = "ConnectionRefusedError",
                                                         !.message = res.message]
               /\ UNCHANGED sio_sessions
          ELSE /\ sockets' = [sockets EXCEPT ![k] = "open"]
               /\ sio_sessions' = [sio_sessions EXCEPT ![k] = res.user]
               /\ glast' = [Handled("connect", k) EXCEPT !.subject = res.user.sub]
    /\ UNCHANGED <<active_connections, command_buffers, streams, relays, outputs, audit>>
    /\ UNCHANGED sessionVars

----------------------------------------------------------------------------
(* backend Socket.IO gateway: sessions, input, resize, disconnect *)

\* a command buffer holds at most this many pieces
MaxCommand == 2

\* an exec stream as create_exec_stream returns it:
\*   sock      the socket it was opened for
\*   open      is_open()
\*   closes    calls of close()
\*   removed   deletions of a registry entry that held the stream
\*   stdin     payloads written by write_stdin, in order
\*   sent      payloads of the terminal_input events received for the stream
\*   resizes   messages written to the resize channel
\*   produced  output chunks the pod has written (chunk n is the n-th)
\*   taken     output chunks read by the relay
\*   flushed   output chunks passed to log_output
NewStream(k) ==
    [sock |-> k, open |-> TRUE, closes |-> 0, removed |-> 0, stdin |-> <<>>,
     sent |-> <<>>, resizes |-> <<>>, produced |-> 0, taken |-> 0, flushed |-> <<>>]

NewRelay == [pc |-> "loop", output_buffer |-> <<>>]

RECURSIVE Total(_, _)
Total(f, S) ==
    IF S = {} THEN 0 ELSE LET x == CHOOSE y \in S : TRUE IN f[x] + Total(f, S \ {x})

\* events and chunks counted over all streams opened
Traffic ==
    Total([s \in DOMAIN streams |->
             Len(streams[s].sent) + Len(streams[s].resizes) + streams[s].produced],
          DOMAIN streams)

RegisteredAlways(conns, k) == TRUE

\* `if sid in self.active_connections`
Registered(conns, k) == k \in DOMAIN conns

\* SocketIOController.disconnect_session; closeFails: exec_stream.close() raises
DisconnectSession(k, conns, bufs, strs, closeFails) ==
    LET cleared == IF k \in DOMAIN bufs THEN Remove(bufs, k) ELSE bufs IN
    IF ~Registered(conns, k)
    THEN [raised |-> "none", conns |-> conns, bufs |-> cleared, streams |-> strs]
    ELSE IF k \notin DOMAIN conns
    THEN \* self.active_connections[sid] of a socket that is not registered
         [raised |-> "KeyError", conns |-> conns, bufs |-> bufs, streams |-> strs]
    ELSE LET s == conns[k].exec_stream IN
         [raised |-> "none", conns |-> Remove(conns, k), bufs |-> cleared,
          streams |-> [strs EXCEPT ![s].closes = @ + 1,
                                   ![s].removed = @ + 1,
                                   ![s].open = IF closeFails THEN @ ELSE FALSE]]

BindableAlways(status) == TRUE

\* connect_to_session: `if session.status != "Running"` emits an error
Bindable(status) == status = "Running"

\* SocketIOService.join_session and SocketIOController.connect_to_session
JoinSession(k, sid) ==
    /\ sockets[k] = "open"
    /\ LET begin == Handled("join", k)
           user == sio_sessions[k]
       IN
       IF sid = "none"
       THEN /\ glast' = Error(begin, "session_id is required")
            /\ UNCHANGED <<active_connections, streams, relays, outputs>>
            /\ UNCHANGED sessionVars
       ELSE IF user = NoPayload
       THEN /\ glast' = Error(begin, "Not authenticated")
            /\ UNCHANGED <<active_connections, streams, relays, outputs>>
            /\ UNCHANGED sessionVars
       ELSE IF user.sub = NoClaim
       THEN \* user["sub"] raises KeyError: `except Exception`
            /\ glast' = Error(begin, "Internal server error")
            /\ UNCHANGED <<active_connections, streams, relays, outputs>>
            /\ UNCHANGED sessionVars
       ELSE /\ BackendGetSession(sid, user.sub)
            /\ IF last'.result = "none"
               THEN /\ glast' = Error(begin, "Session not found")
                    /\ UNCHANGED <<active_connections, streams, relays, outputs>>
               ELSE IF last'.result = "error"
               THEN /\ glast' = Error(begin, "Failed to get session details")
                    /\ UNCHANGED <<active_connections, streams, relays, outputs>>
               ELSE IF ~Bindable(last'.status)
               THEN /\ glast' = Error(begin, "Session is not running")
                    /\ UNCHANGED <<active_connections, streams, relays, outputs>>
               ELSE \E execFails \in BOOLEAN :
                      IF execFails
                      THEN \* create_exec_stream raises ApiException
                           /\ glast' = Error(begin, "Failed to connect to pod")
                           /\ UNCHANGED <<active_connections, streams, relays, outputs>>
                      ELSE LET s == Cardinality(DOMAIN streams) + 1 IN
                           /\ s <= MaxStreams
                           /\ active_connections' =
                                Put(active_connections, k,
                                    [session_id |-> sid, user_id |-> user.sub,
                                     exec_stream |-> s])
                           /\ streams' = Put(streams, s, NewStream(k))
                           /\ relays' = Put(relays, s, NewRelay)
                           /\ outputs' = Put(outputs, s, <<>>)
                           /\ glast' = [begin EXCEPT !.event = "connected",
                                                     !.opened = TRUE]
    /\ UNCHANGED <<sockets, sio_sessions, command_buffers, audit>>

WriteStdinFirst(stdin, payload) == <<payload>> \o stdin

\* exec_stream.write_stdin(input_data)
WriteStdin(stdin, payload) == Append(stdin, payload)

\* SocketIOController.handle_input
HandleInput(k, payload) ==
    /\ sockets[k] = "open"
    /\ LET begin == [Handled("input", k) EXCEPT !.payload = payload] IN
       IF k \notin DOMAIN active_connections
       THEN /\ glast' = Error(begin, "Not connected to a session")
            /\ UNCHANGED <<command_buffers, streams, audit>>
       ELSE IF payload = <<>>
       THEN /\ glast' = begin
            /\ UNCHANGED <<command_buffers, streams, audit>>
       ELSE \E sinkFails \in BOOLEAN :
            LET conn == active_connections[k]
                s == conn.exec_stream
                before == IF k \in DOMAIN command_buffers THEN command_buffers[k] ELSE <<>>
                command == Strip(before)
                completes == payload \in {<<t>> : t \in Terminators}
                logged == completes /\ command # <<>>
                res == LogCommand(audit, conn.user_id, conn.session_id, command, sinkFails)
                after == IF completes THEN <<>>
                         ELSE IF payload \in {<<t>> : t \in Backspaces}
                         THEN (IF before # <<>> THEN DropLast(before) ELSE before)
                         ELSE IF IsPrintable(payload) THEN before \o payload
                         ELSE before
                ran == [begin EXCEPT !.before = before,
                                     !.commands = IF logged THEN <<command>> ELSE <<>>,
                                     !.auditfail = IF logged THEN res.failure ELSE "none"]
            IN
            \* log_struct can fail only where it is called
            /\ sinkFails => (logged /\ ~FilterSensitiveData(command).raised)
            /\ Traffic < MaxTraffic
            /\ Len(after) <= MaxCommand
            /\ audit' = IF logged THEN res.audit ELSE audit
            /\ IF logged /\ res.raised
               THEN \* the exception leaves log_command: `except Exception`
                    /\ command_buffers' = Put(command_buffers, k, before)
                    /\ streams' = [streams EXCEPT ![s].sent = Append(@, payload)]
                    /\ glast' = Error(ran, "Failed to send input")
               ELSE IF ~streams[s].open
               THEN \* write_stdin on a closed stream raises
                    /\ command_buffers' = Put(command_buffers, k, after)
                    /\ streams' = [streams EXCEPT ![s].sent = Append(@, payload)]
                    /\ glast' = Error(ran, "Failed to send input")
               ELSE /\ command_buffers' = Put(command_buffers, k, after)
                    /\ streams' = [streams EXCEPT ![s].sent = Append(@, payload),
                                                  ![s].stdin = WriteStdin(@, payload)]
                    /\ glast' = [ran EXCEPT !.wrote = TRUE]
    /\ UNCHANGED <<sockets, sio_sessions, active_connections, relays, outputs>>
    /\ UNCHANGED sessionVars

\* cols and rows of a terminal_resize event ("none": the key is missing)
ResizeValues == {"none", "0", "80", "-1"}

\* `not cols`
Falsy == {"none", "0"}

\* the terminal_resize events: a size missing, zero, negative, and both fine
ResizeEvents ==
    {<<"none", "80">>, <<"80", "0">>, <<"80", "80">>, <<"-1", "80">>, <<"80", "-1">>}

\* SocketIOController.handle_resize
HandleResize(k, cols, rows) ==
    /\ sockets[k] = "open"
    /\ LET begin == Handled("resize", k) IN
       IF k \notin DOMAIN active_connections
       THEN /\ glast' = Error(begin, "Not connected to a session")
            /\ UNCHANGED streams
       ELSE IF cols \in Falsy \/ rows \in Falsy
       THEN /\ glast' = begin
            /\ UNCHANGED streams
       ELSE LET s == active_connections[k].exec_stream IN
            /\ Traffic < MaxTraffic
            /\ IF streams[s].open
               THEN \* the JSON message is written to channel 4
                    /\ streams' = [streams EXCEPT ![s].resizes = Append(@, <<cols, rows>>)]
                    /\ glast' = [begin EXCEPT !.wrote = TRUE]
               ELSE \* all three formats fail
                    /\ glast' = Error(begin, "Terminal resize not supported")
                    /\ UNCHANGED streams
    /\ UNCHANGED <<sockets, sio_sessions, active_connections, command_buffers, relays,
                   outputs, audit>>
    /\ UNCHANGED sessionVars

\* SocketIOService.disconnect: the client went away
DisconnectEvent(k) ==
    /\ sockets[k] = "open"
    /\ \E closeFails \in BOOLEAN :
         LET res == DisconnectSession(k, active_connections, command_buffers, streams,
                                      closeFails)
         IN /\ closeFails => k \in DOMAIN active_connections
            /\ active_connections' = res.conns
            /\ command_buffers' = res.bufs
            /\ streams' = res.streams
            /\ glast' = [Handled("disconnect", k) EXCEPT !.raised = res.raised]
    /\ sockets' = [sockets EXCEPT ![k] = "closed"]
    /\ UNCHANGED <<sio_sessions, relays, outputs, audit>>
    /\ UNCHANGED sessionVars

----------------------------------------------------------------------------
(* backend Socket.IO gateway: the output relay *)

\* chunks first..last of a stream
Chunks(first, final) == [i \in 1..(final - first + 1) |-> first + i - 1]

\* sio.emit("output", ...) to the socket for each chunk read, in turn
Emit(emitted, chunks) == emitted \o chunks

\* the pod writes a chunk of output
PodOutput(s) ==
    /\ s \in DOMAIN streams
    /\ streams[s].open
    /\ Traffic < MaxTraffic
    /\ streams' = [streams EXCEPT ![s].produced = @ + 1]
    /\ UNCHANGED <<sockets, sio_sessions, active_connections, command_buffers, relays,
                   outputs, audit, glast>>
    /\ UNCHANGED sessionVars

\* the shell in the pod ends: the stream is closed from the far side
StreamCloses(s) ==
    /\ s \in DOMAIN streams
    /\ streams[s].open
    /\ streams' = [streams EXCEPT ![s].open = FALSE]
    /\ UNCHANGED <<sockets, sio_sessions, active_connections, command_buffers, relays,
                   outputs, audit, glast>>
    /\ UNCHANGED sessionVars

FlushDueUntimed(n, buf, silent) == buf # <<>>

\* `if output_buffer and (current_time - last_output_time) > CHUNK_TIMEOUT`,
\* after n chunks were read in the pass: a read sets last_output_time to
\* current_time
FlushDue(n, buf, silent) == buf # <<>> /\ n = 0 /\ silent

\* one pass of the loop of _read_from_exec_stream with the socket registered
\* and the stream open: read stdout and stderr, emit what was read, flush the
\* buffer after a silence; an exception of a read is swallowed
RelayIterate(s) ==
    /\ s \in DOMAIN relays
    /\ relays[s].pc = "loop"
    /\ streams[s].sock \in DOMAIN active_connections
    /\ streams[s].open
    /\ LET k == streams[s].sock
           conn == active_connections[k]
           buf == relays[s].output_buffer
           begin == Handled("relay", k)
       IN
       \E n \in 0..2, silent \in BOOLEAN, sinkFails \in BOOLEAN, readFails \in BOOLEAN :
         LET chunks == Chunks(streams[s].taken + 1, streams[s].taken + n)
             flush == FlushDue(n, buf, silent)
             res == LogOutput(audit, conn.user_id, conn.session_id, buf, sinkFails)
         IN
         /\ n <= streams[s].produced - streams[s].taken
         /\ silent => (n = 0 /\ buf # <<>>)
         /\ sinkFails => flush
         /\ readFails => (n = 0 /\ ~silent)
         /\ readFails \/ n > 0 \/ flush
         /\ outputs' = [outputs EXCEPT ![s] = Emit(@, chunks)]
         /\ streams' = [streams EXCEPT ![s].taken = @ + n,
                                       ![s].flushed = IF flush THEN @ \o buf ELSE @]
         \* an exception that leaves log_output is swallowed by the loop's
         \* `except Exception: pass`, before the buffer is reset
         /\ relays' = [relays EXCEPT ![s].output_buffer =
                                       IF flush /\ ~res.raised THEN <<>> ELSE buf \o chunks]
         /\ audit' = IF flush THEN res.audit ELSE audit
         /\ glast' = [begin EXCEPT !.read = chunks, !.emitted = chunks,
                                   !.auditfail = IF flush THEN res.failure ELSE "none",
                                   !.stream = s, !.silent = silent,
                                   !.flush = IF flush THEN buf ELSE <<>>]
    /\ UNCHANGED <<sockets, sio_sessions, active_connections, command_buffers>>
    /\ UNCHANGED sessionVars

LoopEndsUnregistered(registered, open) == ~registered

\* `while sid in self.active_connections` is false, or the `else: break` of
\* `if exec_stream.is_open()`
LoopEnds(registered, open) == ~registered \/ ~open

\* the loop of _read_from_exec_stream ends (the socket is not registered, or
\* the stream is closed): flush what is buffered, then disconnect_session
RelayExit(s) ==
    /\ s \in DOMAIN relays
    /\ relays[s].pc = "loop"
    /\ LoopEnds(streams[s].sock \in DOMAIN active_connections, streams[s].open)
    /\ LET k == streams[s].sock
           buf == relays[s].output_buffer
           \* _flush_output_buffer: `if sid in self.active_connections`
           flush == buf # <<>> /\ k \in DOMAIN active_connections
       IN
       \E sinkFails \in BOOLEAN, closeFails \in BOOLEAN :
         LET res == IF flush
                    THEN LogOutput(audit, active_connections[k].user_id,
                                   active_connections[k].session_id, buf, sinkFails)
                    ELSE [raised |-> FALSE, failure |-> "none", audit |-> audit]
             flushed == [streams EXCEPT ![s].flushed = IF flush THEN @ \o buf ELSE @]
             fin == DisconnectSession(k, active_connections, command_buffers, flushed,
                                      closeFails)
         IN
         /\ sinkFails => flush
         /\ closeFails => k \in DOMAIN active_connections
         /\ audit' = res.audit
         /\ active_connections' = fin.conns
         /\ command_buffers' = fin.bufs
         /\ streams' = fin.streams
         /\ relays' = [relays EXCEPT ![s].pc = "done"]
         \* an exception that leaves log_output is caught by the outer
         \* `except Exception`, which emits an error; disconnect_session runs
         \* in the `finally`
         /\ glast' = [Handled("relay_exit", k) EXCEPT
                        !.auditfail = res.failure,
                        !.stream = s,
                        !.flush = IF flush THEN buf ELSE <<>>,
                        !.event = IF res.raised THEN "error" ELSE "none",
                        !.message = IF res.raised THEN "Connection to pod lost" ELSE "none",
                        !.raised = fin.raised]
    /\ UNCHANGED <<sockets, sio_sessions, outputs>>
    /\ UNCHANGED sessionVars

----------------------------------------------------------------------------
(* gamgui-session sidecar: the /ws endpoint *)

WebSockets == {"w1", "w2"}

\* command and plain-text messages one connection sends
MaxMessages == 2

\* fastapi.status.WS_1008_POLICY_VIOLATION
WS_1008_POLICY_VIOLATION == 1008

\* the `token` query parameter: given or not, with a "Bearer " prefix or not,
\* and what the token after the prefix is ("empty": the empty string)
QueryTokens ==
    {[given |-> FALSE, bearer |-> FALSE, kind |-> "empty"]}
      \cup [given : {TRUE}, bearer : BOOLEAN, kind : {"valid", "invalid", "expired"}]
      \cup {[given |-> TRUE, bearer |-> FALSE, kind |-> "empty"]}

ExtractTokenUnstripped(query) == query

\* AuthController._extract_token: the prefix is removed
ExtractToken(query) == [query EXCEPT !.bearer = FALSE]

\* `if not token`
TokenMissing(token) == ~token.given \/ (token.kind = "empty" /\ ~token.bearer)

\* AuthService.verify_token of gamgui-session: the payload of a token that
\* verifies, None ("none") otherwise; a string that still carries the prefix
\* is not a token
VerifyToken(token) ==
    IF token.kind = "valid" /\ ~token.bearer THEN "payload" ELSE "none"

\* lines of output one command prints
MaxOutput == 1

CommandIds == {"c1"}

\* the command texts a client sends: the text after strip(), whether it starts
\* with 'gam ' (or is 'gam'), whether it holds one of the dangerous characters
Commands ==
    {[text |-> "gam info", gam |-> TRUE, dangerous |-> FALSE],
     [text |-> "gam info; id", gam |-> TRUE, dangerous |-> TRUE],
     [text |-> "ls", gam |-> FALSE, dangerous |-> FALSE],
     [text |-> "", gam |-> FALSE, dangerous |-> FALSE]}

NoCommand == [text |-> "", gam |-> FALSE, dangerous |-> FALSE]

\* what a client sends after the welcome: a JSON `command` or `cancel`
\* message, or a line of plain text.  live is set when the message is sent:
\* it tells whether the command the message names was running at that moment.
ClientMessages ==
    [type : {"command"}, command : Commands, command_id : CommandIds, live : {FALSE}]
      \cup [type : {"cancel", "text"}, command : {NoCommand}, command_id : CommandIds,
            live : {FALSE}]

\* what subprocess.Popen does
PopenOutcomes == {"started", "FileNotFoundError", "OSError"}

\* state: the connection; sent: the messages the client was sent; inbox: the
\* messages the client sent that receive_text has not returned yet; posted:
\* how many the client sent; pc: where the message loop is ("idle": awaiting
\* receive_text, "streaming": inside the `async for` of _handle_command);
\* running_processes: the keys of GamService.running_processes; process: the
\* subprocess of the command; runs: per command message handled, what it was
\* sent; cancels: per cancel message handled, its answer
NewWebSocket ==
    [state |-> "new", query |-> [given |-> FALSE, bearer |-> FALSE, kind |-> "empty"],
     sent |-> <<>>, close_code |-> 0, gone |-> FALSE, handled |-> FALSE, executed |-> 0,
     inbox |-> <<>>, posted |-> 0, pc |-> "idle", running_processes |-> {},
     process |-> "none", runs |-> <<>>, cancels |-> <<>>]

\* the messages of AuthController.authenticate_websocket
AuthErrors == {"Authentication token required", "Invalid authentication token"}

\* AuthController._send_auth_error; gone: the client is not there any more, so
\* send_text raises and the close is skipped
SendAuthError(ws, message) ==
    IF ws.gone
    THEN ws
    ELSE [ws EXCEPT !.sent = Append(@, [type |-> "error", message |-> message]),
                    !.close_code = WS_1008_POLICY_VIOLATION]

\* AuthController.authenticate_websocket
AuthenticateWebsocket(ws) ==
    LET token == ExtractToken(ws.query) IN
    IF TokenMissing(token)
    THEN [success |-> FALSE, ws |-> SendAuthError(ws, "Authentication token required")]
    ELSE IF VerifyToken(token) = "none"
    THEN [success |-> FALSE, ws |-> SendAuthError(ws, "Invalid authentication token")]
    ELSE [success |-> TRUE, ws |-> ws]

ProceedsAlways(success) == TRUE

\* websocket_endpoint: `if not auth_success: return`
Proceeds(success) == success

\* websocket_endpoint up to the welcome message of handle_connection
WebsocketEndpoint(w, query, gone) ==
    /\ websockets[w].state = "new"
    /\ LET ws == [websockets[w] EXCEPT !.query = query, !.gone = gone]
           res == AuthenticateWebsocket(ws)
       IN
       websockets' =
         [websockets EXCEPT ![w] =
            IF ~Proceeds(res.success)
            THEN [res.ws EXCEPT !.state = "rejected"]
            ELSE [res.ws EXCEPT !.state = "handling", !.handled = TRUE,
                                !.sent = IF gone THEN @
                                         ELSE Append(@, [type |-> "welcome",
                                                         message |-> "Connected"])]]
    /\ UNCHANGED sessionVars
    /\ UNCHANGED gatewayVars
    /\ UNCHANGED wait

\* the client sends a message; the server sees it at its next receive_text
ClientSends(w, msg) ==
    /\ websockets[w].state = "handling"
    /\ ~websockets[w].gone
    /\ websockets[w].posted < MaxMessages
    /\ LET live == /\ msg.type = "cancel"
                   /\ msg.command_id \in websockets[w].running_processes
                   /\ websockets[w].process = "running"
       IN websockets' = [websockets EXCEPT
                           ![w].inbox = Append(@, [msg EXCEPT !.live = live]),
                           ![w].posted = @ + 1]
    /\ UNCHANGED sessionVars
    /\ UNCHANGED gatewayVars
    /\ UNCHANGED wait

\* WebSocketController.send_message of one message of a command
SendCommandMessage(ws, type, command_id) ==
    [ws EXCEPT !.sent = Append(@, [type |-> type, message |-> command_id]),
               !.runs[Len(ws.runs)].trace = Append(@, type)]

ValidateCommandAlways(command) == TRUE

\* GamService._validate_command
ValidateCommand(command) ==
    command.text # "" /\ command.gam /\ ~command.dangerous

\* GamService.execute_command up to its first readline: the error of the
\* validation, or command_start and the Popen
ExecuteCommand(ws, command, command_id, popen) ==
    IF ~ValidateCommand(command)
    THEN [SendCommandMessage(ws, "error", "none") EXCEPT !.runs[Len(ws.runs)].done = TRUE]
    ELSE LET started == SendCommandMessage(ws, "command_start", command_id) IN
         IF popen # "started"
         THEN [SendCommandMessage(started, "error", command_id) EXCEPT !.runs[Len(ws.runs)].done = TRUE]
         ELSE [started EXCEPT !.running_processes = @ \cup {command_id},
                              !.process = "running",
                              !.runs[Len(ws.runs)].spawned = TRUE,
                              !.executed = @ + 1,
                              !.pc = "streaming"]

\* WebSocketController._handle_command
HandleCommand(ws, msg, popen) ==
    LET run == [command |-> msg.command, command_id |-> msg.command_id,
                trace |-> <<>>, spawned |-> FALSE, done |-> FALSE]
        begun == [ws EXCEPT !.runs = Append(@, run)]
    IN
    IF msg.command.text = ""
    THEN [SendCommandMessage(begun, "error", "none") EXCEPT !.runs[Len(begun.runs)].done = TRUE]
    ELSE ExecuteCommand(begun, msg.command, msg.command_id, popen)

\* GamService.cancel_command
CancelCommand(ws, command_id) ==
    IF command_id \in ws.running_processes
    THEN [cancelled |-> TRUE, ws |-> [ws EXCEPT !.process = "terminated"]]
    ELSE [cancelled |-> FALSE, ws |-> ws]

\* WebSocketController._handle_cancel of a message that names a command
HandleCancel(ws, msg) ==
    LET res == CancelCommand(ws, msg.command_id) IN
    [res.ws EXCEPT !.sent = Append(@, [type |-> "cancelled", message |-> msg.command_id]),
                   !.cancels = Append(@, [command_id |-> msg.command_id,
                                          live |-> msg.live,
                                          success |-> res.cancelled])]

\* WebSocketController._execute_terminal_command: a line of plain text is run
ExecuteTerminalCommand(ws) == [ws EXCEPT !.executed = @ + 1]

\* WebSocketController._message_loop: receive_text returns the next message
\* of the client and the loop awaits its handler
MessageLoop(w) ==
    /\ websockets[w].state = "handling"
    /\ websockets[w].pc = "idle"
    /\ websockets[w].inbox # <<>>
    /\ LET msg == Head(websockets[w].inbox)
           ws == [websockets[w] EXCEPT !.inbox = Tail(@)]
       IN \E popen \in PopenOutcomes :
            /\ msg.type # "command" => popen = "started"
            /\ websockets' =
                 [websockets EXCEPT ![w] =
                    CASE msg.type = "command" -> HandleCommand(ws, msg, popen)
                      [] msg.type = "cancel" -> HandleCancel(ws, msg)
                      [] OTHER -> ExecuteTerminalCommand(ws)]
    /\ UNCHANGED sessionVars
    /\ UNCHANGED gatewayVars
    /\ UNCHANGED wait

\* the `async for` of _handle_command takes the next output line of the
\* generator: readline returned a line
CommandOutput(w) ==
    /\ websockets[w].state = "handling"
    /\ websockets[w].pc = "streaming"
    /\ LET ws == websockets[w]
           run == ws.runs[Len(ws.runs)]
       IN /\ Len(run.trace) <= MaxOutput
          /\ websockets' = [websockets EXCEPT ![w] = SendCommandMessage(ws, "output", run.command_id)]
    /\ UNCHANGED sessionVars
    /\ UNCHANGED gatewayVars
    /\ UNCHANGED wait

\* the generator ends: readline returned '' of a process that exited
\* (command_complete), or the read raised (error); the `finally` of
\* execute_command drops the process reference and terminates a process that
\* still runs; the message loop goes back to receive_text
CommandEnds(w, raised) ==
    /\ websockets[w].state = "handling"
    /\ websockets[w].pc = "streaming"
    /\ LET ws == websockets[w]
           run == ws.runs[Len(ws.runs)]
           final == SendCommandMessage(ws, IF raised THEN "error" ELSE "command_complete", run.command_id)
       IN websockets' =
            [websockets EXCEPT ![w] =
               [final EXCEPT !.running_processes = @ \ {run.command_id},
                             !.process = IF raised THEN "terminated" ELSE "exited",
                             !.runs[Len(ws.runs)].done = TRUE,
                             !.pc = "idle"]]
    /\ UNCHANGED sessionVars
    /\ UNCHANGED gatewayVars
    /\ UNCHANGED wait

\* receive_text raises WebSocketDisconnect once the messages of the client
\* are consumed: _cleanup_connection, which cancels all commands
WebsocketDisconnect(w) ==
    /\ websockets[w].state = "handling"
    /\ websockets[w].pc = "idle"
    /\ websockets[w].inbox = <<>>
    /\ websockets' = [websockets EXCEPT ![w].state = "closed", ![w].gone = TRUE,
                                        ![w].running_processes = {}]
    /\ UNCHANGED sessionVars
    /\ UNCHANGED gatewayVars
    /\ UNCHANGED wait

----------------------------------------------------------------------------
(* gamgui-server PersistentSessionService *)

\* get_user_active_sessions: the active sessions of the repository, or the
\* empty list when the read raises
UserActiveSessions(store, u, readFails) ==
    IF readFails THEN {} ELSE ActiveSessions(store, u)

\* the `except Exception` around the body of create_persistent_session: every
\* exception, the APIException of the limit included, is raised again as
PersistentWrapped(code) == "PERSISTENT_SESSION_CREATION_FAILED"

\* KubernetesService of gamgui-server has no create_persistent_session_job:
\* the call raises AttributeError
PersistentJobCall == [raised |-> TRUE, code |-> "AttributeError"]

\* PersistentSessionService.create_persistent_session
CreatePersistentSession(u) ==
    /\ variant = "server"
    /\ \E readFails \in BOOLEAN :
         LET counted == Cardinality(UserActiveSessions(sessions, u, readFails))
             begin == [NoOp EXCEPT !.op = "persistent_create", !.caller = u,
                                   !.active = Cardinality(ActiveSessions(sessions, u)),
                                   !.faults = IF readFails THEN {"store_read"} ELSE {}]
         IN IF counted >= MAX_SESSIONS_PER_USER
            THEN last' = [begin EXCEPT !.result = "error",
                                       !.code = PersistentWrapped("SESSION_LIMIT_REACHED")]
            ELSE last' = [begin EXCEPT !.result = "error",
                                       !.code = PersistentWrapped(PersistentJobCall.code),
                                       !.calls = {"create_job"}]
    /\ UNCHANGED <<variant, sessions, pods, services, ingresses, tasks>>

----------------------------------------------------------------------------
(* backend KubernetesService.wait_for_pod_ready *)

\* the `timeout` argument: the number of polls
WaitTimeout == 2

\* what a read_namespaced_pod of a poll can raise
ReadErrors == {"none", "404", "500", "other"}

\* no call of wait_for_pod_ready yet
\*   pc       "idle", "sleeping" (in asyncio.sleep(1) of a poll), "done"
\*   polls    iterations of the loop started
\*   seen     what the last poll observed ("none": the read raised)
\*   result   the value returned
\*   raised   the exception that left the call
NewWait == [pc |-> "idle", sid |-> "none", polls |-> 0, seen |-> "none",
            result |-> "none", raised |-> "none"]

WaitIdle == wait = NewWait

ContainersReadyUnchecked(p) == Phase(p) = "Running"

\* phase Running, container_statuses not empty and all of them ready
ContainersReady(p) == p = "Ready"

\* `for _ in range(timeout)`: the next iteration, or the return after the loop
WaitLoop(w, sid, polls) ==
    IF polls >= WaitTimeout
    THEN [w EXCEPT !.pc = "done", !.sid = sid, !.polls = polls, !.result = "false"]
    ELSE \* undecided here: the poll is made by WaitPoll
         [w EXCEPT !.pc = "polling", !.sid = sid, !.polls = polls]

\* one iteration: the read, the readiness test, then the return or the sleep
WaitPoll(w, read) ==
    LET seen == IF read = "none" THEN pods[w.sid] ELSE "none"
        polled == [w EXCEPT !.polls = @ + 1, !.seen = seen]
    IN IF seen # "none" /\ ContainersReady(seen)
       THEN [polled EXCEPT !.pc = "done", !.result = "true"]
       ELSE [polled EXCEPT !.pc = "sleeping"]

\* wait_for_pod_ready is called: the first iteration up to its sleep
WaitStart(sid) ==
    /\ wait.pc \in {"idle", "done"}
    /\ \E read \in ReadErrors :
         LET w == WaitLoop(NewWait, sid, 0) IN
         /\ read = "404" => pods[sid] = "absent"
         /\ pods[sid] = "absent" => read # "none"
         /\ wait' = IF w.pc = "done" THEN w ELSE WaitPoll(w, read)
    /\ UNCHANGED sessionVars
    /\ UNCHANGED gatewayVars
    /\ UNCHANGED websockets

\* the sleep returns: the next iteration up to its sleep, or the return
WaitWake ==
    /\ wait.pc = "sleeping"
    /\ \E read \in ReadErrors :
         LET w == WaitLoop(wait, wait.sid, wait.polls) IN
         /\ read = "404" => pods[wait.sid] = "absent"
         /\ pods[wait.sid] = "absent" => read # "none"
         /\ wait' = IF w.pc = "done" THEN w ELSE WaitPoll(w, read)
    /\ UNCHANGED sessionVars
    /\ UNCHANGED gatewayVars
    /\ UNCHANGED websockets

\* create_session_pod has created the pod
PodCreated(sid) ==
    /\ pods[sid] = "absent"
    /\ pods' = [pods EXCEPT ![sid] = "Pending"]
    /\ UNCHANGED <<variant, sessions, services, ingresses, tasks, last>>

----------------------------------------------------------------------------
(* Specification *)

\* the pod a record of the backend store was left with
SeedPod(status) ==
    CASE status = "Pending" -> "Pending"
      [] status = "Running" -> "Ready"
      [] status = "Succeeded" -> "absent"
      [] OTHER -> status

\* no socket has connected to the gateway
GatewayIdle ==
    /\ sockets = [k \in Socks |-> "new"]
    /\ sio_sessions = [k \in Socks |-> NoPayload]
    /\ active_connections = << >>
    /\ command_buffers = << >>
    /\ streams = << >>
    /\ relays = << >>
    /\ outputs = << >>
    /\ audit = NoAudit
    /\ glast = NoEvent

\* no websocket has connected to the sidecar
SidecarIdle == websockets = [w \in WebSockets |-> NewWebSocket]

\* gamgui-server starts on an empty store.  The backend starts on the records
\* its store holds, each with the pod its status tells of.
Init ==
    /\ variant \in {"server", "backend"}
    /\ \E D \in SUBSET SeedIds :
         /\ variant = "server" => D = {}
         /\ sessions \in [D -> [user_id : Users, status : BackendStatuses]]
    /\ pods = [s \in SessIds |-> IF s \in DOMAIN sessions
                                  THEN SeedPod(sessions[s].status) ELSE "absent"]
    /\ services = {}
    /\ ingresses = {}
    /\ tasks = [t \in Tasks |-> IdleTask]
    /\ last = NoOp
    /\ GatewayIdle
    /\ SidecarIdle
    /\ WaitIdle

Next ==
    \/ /\ \E t \in Tasks, u \in Users : ServerCreateStart(t, u)
       /\ UNCHANGED <<gatewayVars, otherVars>>
    \/ /\ \E t \in Tasks : ServerCreatePoll(t)
       /\ UNCHANGED <<gatewayVars, otherVars>>
    \/ /\ \E sid \in SessIds, caller \in Users \cup {NoUser} : ServerGetSession(sid, caller)
       /\ UNCHANGED <<gatewayVars, otherVars>>
    \/ /\ \E sid \in SessIds, caller \in Users \cup {NoUser} : ServerDeleteSession(sid, caller)
       /\ UNCHANGED <<gatewayVars, otherVars>>
    \/ /\ \E u \in Users : BackendCreateSession(u)
       /\ UNCHANGED <<gatewayVars, otherVars>>
    \/ /\ \E sid \in SessIds, caller \in Users : BackendGetSession(sid, caller)
       /\ UNCHANGED <<gatewayVars, otherVars>>
    \/ /\ \E sid \in SessIds, caller \in Users : BackendEndSession(sid, caller)
       /\ UNCHANGED <<gatewayVars, otherVars>>
    \/ /\ \E sid \in SessIds : PodAdvance(sid)
       /\ UNCHANGED <<gatewayVars, otherVars>>
    \/ /\ \E sid \in SessIds, phase \in {"Succeeded", "Failed", "Unknown"} : PodEnds(sid, phase)
       /\ UNCHANGED <<gatewayVars, otherVars>>
    \/ /\ \E sid \in SessIds : PodGone(sid)
       /\ UNCHANGED <<gatewayVars, otherVars>>
    \/ /\ \E u \in Users : CreatePersistentSession(u)
       /\ UNCHANGED <<gatewayVars, otherVars>>
    \/ /\ \E u \in Users : BackendListUserSessions(u)
       /\ UNCHANGED <<gatewayVars, otherVars>>

Spec == Init /\ [][Next]_vars

\* The gateway runs in the backend, over a store that holds session s1 of user
\* u1; each seed is a stored status with the phase of its pod
GatewaySeeds == {<<"Running", "Ready">>, <<"Pending", "Pending">>}

GatewayInit ==
    /\ variant = "backend"
    /\ \E seed \in GatewaySeeds :
         /\ sessions = [s \in {"s1"} |-> [user_id |-> "u1", status |-> seed[1]]]
         /\ pods = [s \in SessIds |-> IF s = "s1" THEN seed[2] ELSE "absent"]
    /\ services = {}
    /\ ingresses = {}
    /\ tasks = [t \in Tasks |-> IdleTask]
    /\ last = NoOp
    /\ GatewayIdle
    /\ SidecarIdle
    /\ WaitIdle

GatewayNext ==
    \/ /\ \E k \in Socks, auth \in AuthData : Connect(k, auth)
       /\ UNCHANGED otherVars
    \/ /\ \E k \in Socks, sid \in SessIds \cup {"none"} : JoinSession(k, sid)
       /\ UNCHANGED otherVars
    \/ /\ \E k \in Socks, payload \in Payloads : HandleInput(k, payload)
       /\ UNCHANGED otherVars
    \/ /\ \E k \in Socks, size \in ResizeEvents : HandleResize(k, size[1], size[2])
       /\ UNCHANGED otherVars
    \/ /\ \E k \in Socks : DisconnectEvent(k)
       /\ UNCHANGED otherVars
    \/ /\ \E s \in 1..MaxStreams : PodOutput(s)
       /\ UNCHANGED otherVars
    \/ /\ \E s \in 1..MaxStreams : StreamCloses(s)
       /\ UNCHANGED otherVars
    \/ /\ \E s \in 1..MaxStreams : RelayIterate(s)
       /\ UNCHANGED otherVars
    \/ /\ \E s \in 1..MaxStreams : RelayExit(s)
       /\ UNCHANGED otherVars

GatewaySpec == GatewayInit /\ [][GatewayNext]_vars

\* the relay task is scheduled again after every asyncio.sleep(0.001): a
\* relay whose loop has ended gets to run its exit path
RelayRuns(s) == RelayExit(s) /\ UNCHANGED otherVars

GatewayFairSpec == GatewaySpec /\ \A s \in 1..MaxStreams : WF_vars(RelayRuns(s))

SidecarInit ==
    /\ variant = "backend"
    /\ sessions = << >>
    /\ pods = [s \in SessIds |-> "absent"]
    /\ services = {}
    /\ ingresses = {}
    /\ tasks = [t \in Tasks |-> IdleTask]
    /\ last = NoOp
    /\ GatewayIdle
    /\ SidecarIdle
    /\ WaitIdle

SidecarNext ==
    \/ \E w \in WebSockets, query \in QueryTokens, gone \in BOOLEAN :
         WebsocketEndpoint(w, query, gone)
    \/ \E w \in WebSockets, msg \in ClientMessages : ClientSends(w, msg)
    \/ \E w \in WebSockets : MessageLoop(w)
    \/ \E w \in WebSockets : CommandOutput(w)
    \/ \E w \in WebSockets, raised \in BOOLEAN : CommandEnds(w, raised)
    \/ \E w \in WebSockets : WebsocketDisconnect(w)

SidecarSpec == SidecarInit /\ [][SidecarNext]_vars

\* the readiness wait of the backend against the pods of the cluster
WaitInit ==
    /\ variant = "backend"
    /\ sessions = << >>
    /\ pods \in [SessIds -> {"absent", "Pending"}]
    /\ services = {}
    /\ ingresses = {}
    /\ tasks = [t \in Tasks |-> IdleTask]
    /\ last = NoOp
    /\ GatewayIdle
    /\ SidecarIdle
    /\ WaitIdle

WaitNext ==
    \/ \E sid \in SessIds : WaitStart(sid)
    \/ WaitWake
    \/ /\ \E sid \in SessIds : PodCreated(sid)
       /\ UNCHANGED <<gatewayVars, otherVars>>
    \/ /\ \E sid \in SessIds : PodAdvance(sid)
       /\ UNCHANGED <<gatewayVars, otherVars>>
    \/ /\ \E sid \in SessIds, phase \in {"Succeeded", "Failed", "Unknown"} : PodEnds(sid, phase)
       /\ UNCHANGED <<gatewayVars, otherVars>>
    \/ /\ \E sid \in SessIds : PodGone(sid)
       /\ UNCHANGED <<gatewayVars, otherVars>>

WaitSpec == WaitInit /\ [][WaitNext]_vars

----------------------------------------------------------------------------
(* Properties *)

ActiveStatus(st) == st \in {"creating", "running", "Pending", "Running"}

RunningStatus(st) == st \in {"running", "Running"}

\* the handler was called for a stored session by its owner, or without a
\* user filter
ByOwner == last.owner # NoUser /\ last.caller \in {last.owner, NoUser}

\* the handler was called for a stored session by another user
ByStranger == last.owner # NoUser /\ last.caller \notin {last.owner, NoUser}

TeardownCalls == {"delete_pod", "delete_service", "delete_ingress"}

\* C1: a gamgui-server create_session called by a user who has at least
\* MAX_SESSIONS_PER_USER active (creating/running) sessions fails with
\* SESSION_LIMIT_REACHED, issues no cluster call and persists nothing.
C1_LimitEnforcement ==
    (variant = "server" /\ last.op = "create" /\ last.active >= MAX_SESSIONS_PER_USER)
        => /\ last.result = "error"
           /\ last.code = "SESSION_LIMIT_REACHED"
           /\ last.calls = {}
           /\ ~last.wrote

C1_Witness ==
    /\ variant = "server"
    /\ last.op = "create"
    /\ last.active >= MAX_SESSIONS_PER_USER
    /\ last.code = "SESSION_LIMIT_REACHED"

\* C2: under every interleaving of concurrent gamgui-server create_session
\* calls no user ever has more than MAX_SESSIONS_PER_USER stored sessions in
\* status creating/running.
C2_LimitAuthoritative ==
    variant = "server" =>
        \A u \in Users : Cardinality(ActiveSessions(sessions, u)) <= MAX_SESSIONS_PER_USER

\* C3: gamgui-server get_session for a session that create_session stored and
\* delete_session has not removed, called by its owner or without a user
\* filter, returns that session (while the store and the cluster answer).
C3_CreateThenGet ==
    (variant = "server" /\ last.op = "get" /\ ByOwner /\ last.faults = {})
        => last.result = "ok"

\* C4: a get_session by the owner of a session stored as Running whose pod is
\* gone persists a terminal status and returns the record with that status
\* (while the store and the cluster answer).
C4_ReconcileOnRead ==
    (last.op = "get" /\ ByOwner /\ last.caller = last.owner /\ RunningStatus(last.was)
       /\ last.gone /\ last.faults = {})
        => /\ last.result = "ok"
           /\ ~ActiveStatus(last.stored)
           /\ last.stored # "none"
           /\ last.status = last.stored

\* C5: ending/deleting a session by its owner when its pod is gone (and no
\* call fails for another reason) raises no error.  The claim is for every
\* stored status; it is stated here for the statuses from which an end is
\* permitted at all (creating/running, Pending/Running).
C5_IdempotentDeletion ==
    (last.op \in {"end", "delete"} /\ ByOwner /\ ActiveStatus(last.was)
       /\ last.gone /\ last.faults = {})
        => last.result # "error"

\* what get_session, end_session and delete_session answer for an id that is
\* not stored
NotFoundAnswer(op) == IF op = "delete" THEN "false" ELSE "none"

\* C6: get_session, end_session and delete_session called by another user than
\* the owner answer what they answer for an id that is not stored, raise
\* nothing, write nothing to the store and issue no cluster call.
C6_OwnershipIsolation ==
    /\ (last.op \in {"get", "end", "delete"} /\ last.owner = NoUser)
          => last.result = NotFoundAnswer(last.op) /\ last.code = "none"
    /\ (last.op \in {"get", "end", "delete"} /\ ByStranger)
          => /\ last.result = NotFoundAnswer(last.op)
             /\ last.code = "none"
             /\ last.status = "none"
             /\ ~last.wrote
             /\ last.stored = last.was
             /\ last.calls = {}

C6_Witness ==
    /\ last.op \in {"end", "delete"}
    /\ ByStranger
    /\ ActiveStatus(last.was)
    /\ last.result = NotFoundAnswer(last.op)

\* C7: a backend create_session on a cluster that rejects the pod creation
\* fails with POD_CREATION_FAILED and writes no session record.
C7_PodCreationFailed ==
    (variant = "backend" /\ last.op = "create" /\ "create_pod" \in last.faults)
        => /\ last.result = "error"
           /\ last.code = "POD_CREATION_FAILED"
           /\ ~last.wrote

\* C8: a session returned by create_session has status Running only if the
\* readiness wait saw the pod's containers ready.
C8_NeverAssumeRunning ==
    (last.op = "create" /\ last.result = "ok" /\ RunningStatus(last.status))
        => last.ready

\* C9: a create_session that fails after the pod was created attempts the
\* deletion of the pod (gamgui-server: and of the service and of the ingress)
\* and raises SESSION_CREATION_FAILED.
C9_CompensatingCleanup ==
    (last.op = "create" /\ last.result = "error"
       /\ "create_pod" \in last.calls \ last.faults)
        => /\ last.code = "SESSION_CREATION_FAILED"
           /\ "delete_pod" \in last.calls
           /\ variant = "server" => TeardownCalls \subseteq last.calls

\* C10: when a delete of the pod, service or ingress fails during end/delete,
\* the error is raised and the record stays with status Failed/error; and the
\* record is removed only after all three deletes succeeded.
C10_TeardownFailure ==
    /\ (last.op \in {"end", "delete"} /\ last.faults \cap TeardownCalls # {})
          => /\ last.result = "error"
             /\ last.stored \in {"Failed", "error"}
    /\ (last.op \in {"end", "delete"} /\ last.was # "none" /\ last.stored = "none")
          => /\ TeardownCalls \subseteq last.calls
             /\ last.faults \cap TeardownCalls = {}

----------------------------------------------------------------------------
(* Properties of the gateway *)

\* the exec streams opened for a socket
StreamsOf(k) == {s \in DOMAIN streams : streams[s].sock = k}

\* the stream of the socket's latest binding
LatestStream(k) == CHOOSE s \in StreamsOf(k) : \A t \in StreamsOf(k) : t <= s

\* C12: whichever of the inbound disconnect event and the relay's exit path
\* runs first, and whether or not the other follows, no exec stream has
\* close() called on it twice, every close() goes with one removal of the
\* registry entry, a registered socket's stream has not been closed by the
\* controller, a socket whose binding was cleaned up had the stream of that
\* binding closed once, a disconnected socket is not registered, and neither
\* path raises.
C12_ExactlyOnceDisconnect ==
    /\ \A s \in DOMAIN streams :
         /\ streams[s].closes <= 1
         /\ streams[s].removed = streams[s].closes
    /\ \A k \in DOMAIN active_connections :
         streams[active_connections[k].exec_stream].closes = 0
    /\ \A k \in Socks :
         /\ sockets[k] = "closed" => k \notin DOMAIN active_connections
         /\ (k \notin DOMAIN active_connections /\ StreamsOf(k) # {})
              => streams[LatestStream(k)].closes = 1
    /\ glast.op \in {"disconnect", "relay_exit"} => glast.raised = "none"

\* the relay's exit path cleaned the connection up, then the disconnect event
\* of the same socket arrived
C12_Witness ==
    /\ glast.op = "disconnect"
    /\ ~glast.bound
    /\ \E s \in DOMAIN streams :
         /\ streams[s].sock = glast.sock
         /\ relays[s].pc = "done"
         /\ streams[s].closes = 1
         /\ streams[s].removed = 1

\* C13: once a client has disconnected and the relay of its exec stream has
\* ended, every output chunk that was emitted to the client has been passed
\* to log_output, in order.
C13_NoOutputLoss ==
    \A s \in DOMAIN streams :
      (sockets[streams[s].sock] = "closed" /\ relays[s].pc = "done")
        => streams[s].flushed = outputs[s]

\* the text of a payload up to its last piece
Line(before, payload) == before \o DropLast(payload)

\* C14: a terminal_input event that ends a line of printable characters with
\* a carriage return or newline (the line being the command buffer followed
\* by the event's own text before the terminator) passes exactly the trimmed
\* line to log_command, or nothing when the trimmed line is empty, and
\* leaves the command buffer of the socket empty.
C14_CommandBoundary ==
    (/\ glast.op = "input"
     /\ glast.bound
     /\ glast.payload # <<>>
     /\ glast.payload[Len(glast.payload)] \in Terminators
     /\ IsPrintable(Line(glast.before, glast.payload)))
      => /\ glast.commands =
              IF Strip(Line(glast.before, glast.payload)) = <<>>
              THEN <<>>
              ELSE <<Strip(Line(glast.before, glast.payload))>>
         /\ glast.sock \in DOMAIN command_buffers => command_buffers[glast.sock] = <<>>

\* C15: on every exec stream, what write_stdin has written is, in order and
\* without repetition, the non-empty payloads of the terminal_input events
\* received for it (all of them while the stream is open, printable or not),
\* and what was emitted to the client is, in order and without repetition,
\* the chunks read from the stream.
C15_PerConnectionOrdering ==
    \A s \in DOMAIN streams :
      /\ Len(streams[s].stdin) <= Len(streams[s].sent)
      /\ streams[s].stdin = SubSeq(streams[s].sent, 1, Len(streams[s].stdin))
      /\ streams[s].open => streams[s].stdin = streams[s].sent
      /\ outputs[s] = Chunks(1, streams[s].taken)

\* two different payloads were written, the first of them a control
\* character that no command holds
C15_Witness ==
    \E s \in DOMAIN streams :
      /\ streams[s].stdin = << <<Word("DEL")>>, <<Word("a")>> >>
      /\ streams[s].sent = streams[s].stdin

\* C16: a join_session that opened an exec stream read a stored session owned
\* by the socket's authenticated subject whose status was Running, and emitted
\* `connected`; every other join_session emitted an error and opened nothing;
\* every registered socket is bound to a stored session of its own subject; a
\* terminal_input or terminal_resize of a socket that is not registered gets
\* an error event and writes nothing, and only handlers of registered sockets
\* write to an exec stream.
C16_BindPreconditions ==
    /\ (glast.op = "join" /\ glast.opened)
         => /\ last.op = "get"
            /\ last.sid \in DOMAIN sessions
            /\ last.result = "ok"
            /\ last.owner = glast.subject
            /\ last.caller = glast.subject
            /\ last.status = "Running"
            /\ glast.event = "connected"
            /\ glast.sock \in DOMAIN active_connections
    /\ (glast.op = "join" /\ ~glast.opened) => glast.event = "error"
    /\ \A k \in DOMAIN active_connections :
         LET conn == active_connections[k] IN
         /\ conn.session_id \in DOMAIN sessions
         /\ sessions[conn.session_id].user_id = conn.user_id
         /\ conn.user_id = sio_sessions[k].sub
         /\ conn.exec_stream \in DOMAIN streams
    /\ (glast.op \in {"input", "resize"} /\ ~glast.bound)
         => (glast.event = "error" /\ ~glast.wrote)
    /\ glast.wrote => glast.bound
    /\ \A s \in DOMAIN streams :
         (streams[s].stdin # <<>> \/ streams[s].resizes # <<>>)
           => \E sid \in DOMAIN sessions :
                sessions[sid].user_id = sio_sessions[streams[s].sock].sub

\* the owner's join_session was refused because the session it read was not
\* Running
C16_Witness ==
    /\ glast.op = "join"
    /\ glast.event = "error"
    /\ glast.message = "Session is not running"
    /\ ~glast.opened
    /\ last.result = "ok"
    /\ last.owner = glast.subject
    /\ last.status = "Pending"
    /\ streams = << >>

\* the exec stream a socket is registered with
StreamOf(k) == active_connections[k].exec_stream

\* C17: a failure inside an audit call (the sink's write, or anything else
\* log_command and log_output catch) does not leave the call: the
\* terminal_input that completed the command raises nothing, emits no error
\* and is written to stdin (the stream being open), the relay goes on
\* emitting, the relay's exit emits no error, and the socket stays registered
\* after the input and after the relay iteration.
C17_AuditFailuresSwallowed ==
    /\ (glast.op = "input" /\ glast.auditfail # "none")
         => /\ glast.raised = "none"
            /\ glast.sock \in DOMAIN active_connections
            /\ streams[StreamOf(glast.sock)].open
                 => /\ glast.wrote
                    /\ glast.event = "none"
                    /\ LET stdin == streams[StreamOf(glast.sock)].stdin
                       IN stdin # <<>> /\ stdin[Len(stdin)] = glast.payload
    /\ (glast.op = "relay" /\ glast.auditfail # "none")
         => /\ glast.raised = "none"
            /\ glast.event = "none"
            /\ glast.sock \in DOMAIN active_connections
            /\ \E s \in StreamsOf(glast.sock) : relays[s].pc = "loop"
    /\ (glast.op = "relay_exit" /\ glast.auditfail # "none")
         => (glast.raised = "none" /\ glast.event = "none")

\* log_struct raised while the relay flushed emitted output
C17_Witness ==
    /\ glast.op = "relay"
    /\ glast.auditfail = "log_struct"
    /\ glast.sock \in DOMAIN active_connections
    /\ outputs[StreamOf(glast.sock)] # <<>>
    /\ audit = NoAudit

\* the pieces of a text
Pieces(text) == {text[i] : i \in DOMAIN text}

\* C18: when a command holding the assignment password=secret123 completes
\* on a connection, log_command writes an entry for it to the audit log, and
\* the entry holds the key followed by the marker and does not hold the
\* value; no entry of the audit log holds the value.
C18_Redaction ==
    /\ (/\ glast.op = "input"
        /\ glast.commands # <<>>
        /\ SecretAssignment \in Pieces(glast.commands[1]))
         => /\ audit # NoAudit
            /\ audit[Len(audit)].type = "command"
            /\ [key |-> SecretAssignment.key, value |-> Redacted]
                 \in Pieces(audit[Len(audit)].command)
            /\ SecretAssignment \notin Pieces(audit[Len(audit)].command)
    /\ \A i \in DOMAIN audit :
         audit[i].type = "command" => SecretAssignment \notin Pieces(audit[i].command)

----------------------------------------------------------------------------
(* Properties of the sidecar *)

\* the token of the query is missing, invalid or expired
Unauthenticated(query) == ~query.given \/ query.kind # "valid"

\* C19: a websocket whose token is missing, invalid or expired is rejected:
\* handle_connection is not invoked for it, nothing it sends is executed, and
\* (the client still being there) it is sent one error message and closed
\* with code 1008; a websocket with a valid token is handled, with or without
\* a "Bearer " prefix on the token.
C19_SidecarAuthentication ==
    \A w \in WebSockets :
      LET ws == websockets[w] IN
      ws.state # "new"
        => /\ Unauthenticated(ws.query)
                => /\ ws.state = "rejected"
                   /\ ~ws.handled
                   /\ ws.executed = 0
                   /\ ~ws.gone
                        => /\ Len(ws.sent) = 1
                           /\ ws.sent[1].type = "error"
                           /\ ws.close_code = WS_1008_POLICY_VIOLATION
           /\ ~Unauthenticated(ws.query)
                => /\ ws.handled
                   /\ ws.close_code = 0
                   /\ \A i \in DOMAIN ws.sent : ws.sent[i].message \notin AuthErrors

\* one websocket was rejected for an expired token behind a Bearer prefix,
\* another one with a valid token behind the prefix had a message executed
C19_Witness ==
    \E w, v \in WebSockets :
      /\ websockets[w].state = "rejected"
      /\ websockets[w].query = [given |-> TRUE, bearer |-> TRUE, kind |-> "expired"]
      /\ websockets[w].close_code = WS_1008_POLICY_VIOLATION
      /\ websockets[v].query = [given |-> TRUE, bearer |-> TRUE, kind |-> "valid"]
      /\ websockets[v].executed > 0

----------------------------------------------------------------------------
(* Properties of the gateway: authentication *)

\* C20: a socket whose connect was accepted has a stored user that carries
\* both a subject and an email claim, and a refused connect leaves the socket
\* without a stored user and without registry entry, command buffer or exec
\* stream.
C20_GatewayAuthentication ==
    \A k \in Socks :
      /\ sockets[k] = "open"
           => /\ sio_sessions[k].sub # NoClaim
              /\ sio_sessions[k].email # NoClaim
      /\ (glast.op = "connect" /\ glast.sock = k /\ glast.raised # "none")
           => /\ sockets[k] = "closed"
              /\ sio_sessions[k] = NoPayload
              /\ k \notin DOMAIN active_connections
              /\ k \notin DOMAIN command_buffers
              /\ StreamsOf(k) = {}

----------------------------------------------------------------------------
(* Properties of the gateway: resize, relay, bridges *)

\* the sizes that are present and positive
PositiveSizes == {"80"}

\* C21: every message written to the resize channel of an exec stream carries
\* cols and rows that are both present and positive.
C21_ResizeValidation ==
    \A s \in DOMAIN streams :
      \A i \in DOMAIN streams[s].resizes :
        /\ streams[s].resizes[i][1] \in PositiveSizes
        /\ streams[s].resizes[i][2] \in PositiveSizes

----------------------------------------------------------------------------
(* Properties of the readiness wait *)

\* C22: a call of wait_for_pod_ready never makes more than `timeout` polls
\* and never raises; when it has returned, it returned True and its last
\* poll observed the pod Running with all containers ready, or it returned
\* False after exactly `timeout` polls, none of which observed that - also
\* when every read failed.
C22_BoundedReadinessWait ==
    /\ wait.polls <= WaitTimeout
    /\ wait.raised = "none"
    /\ wait.pc = "done"
         => \/ wait.result = "true" /\ wait.seen = "Ready" /\ wait.polls >= 1
            \/ wait.result = "false" /\ wait.polls = WaitTimeout /\ wait.seen # "Ready"
    /\ wait.pc = "sleeping" => (wait.result = "none" /\ wait.seen # "Ready")

\* the wait ran out with every read failing, the pod not being there
C22_Witness ==
    /\ wait.pc = "done"
    /\ wait.result = "false"
    /\ wait.polls = WaitTimeout
    /\ wait.seen = "none"
    /\ pods[wait.sid] = "absent"

----------------------------------------------------------------------------
(* Properties of PersistentSessionService *)

\* C24: a create_persistent_session of a user who has reached
\* MAX_SESSIONS_PER_USER active sessions ends in an error with the code
\* SESSION_LIMIT_REACHED and attempts no job creation, whether or not the
\* read of the active sessions failed.
C24_StableLimitCode ==
    (last.op = "persistent_create" /\ last.active >= MAX_SESSIONS_PER_USER)
      => /\ last.result = "error"
         /\ last.code = "SESSION_LIMIT_REACHED"
         /\ "create_job" \notin last.calls

----------------------------------------------------------------------------
(* Properties of the session services, continued *)

----------------------------------------------------------------------------
(* Properties of the gateway: the relay's audit flushes *)

\* C26: a pass of the relay loop passes its buffer to the audit sink only
\* when the buffer is not empty, the pass read nothing and the silence has
\* lasted longer than CHUNK_TIMEOUT, and the buffer is empty after it; what a
\* relay has flushed is a prefix of what it has read and emitted, and while
\* the relay runs with its socket registered, what it has flushed followed by
\* its buffer is exactly what it has read: no chunk is flushed twice, none is
\* skipped.
C26_FlushOnSilence ==
    /\ (glast.op = "relay" /\ glast.flush # <<>>)
         => /\ glast.silent
            /\ glast.read = <<>>
            /\ relays[glast.stream].pc = "loop" => relays[glast.stream].output_buffer = <<>>
    /\ \A s \in DOMAIN streams :
         /\ Len(streams[s].flushed) <= Len(outputs[s])
         /\ streams[s].flushed = SubSeq(outputs[s], 1, Len(streams[s].flushed))
         /\ (relays[s].pc = "loop" /\ streams[s].sock \in DOMAIN active_connections)
              => streams[s].flushed \o relays[s].output_buffer = outputs[s]

\* two chunks were read and emitted, and after a silence both were flushed
C26_Witness ==
    /\ glast.op = "relay"
    /\ glast.flush # <<>>
    /\ glast.sock \in DOMAIN active_connections
    /\ streams[glast.stream].flushed = <<1, 2>>
    /\ outputs[glast.stream] = <<1, 2>>
    /\ relays[glast.stream].output_buffer = <<>>

\* the relay of stream s has ended and the socket of the stream has no entry
\* in active_connections and none in command_buffers
CleanedUp(s) ==
    /\ relays[s].pc = "done"
    /\ streams[s].sock \notin DOMAIN active_connections
    /\ streams[s].sock \notin DOMAIN command_buffers

OpenStreams(k) == {s \in StreamsOf(k) : streams[s].open /\ streams[s].closes = 0}

\* the relay tasks of a socket that are running
RunningRelays(k) == {s \in StreamsOf(k) : relays[s].pc = "loop"}

\* C28: a socket has at most one open exec stream, and at most one running
\* relay task while it is registered; once it is not in active_connections,
\* every exec stream opened for it has been closed.
C28_OneBridgePerConnection ==
    \A k \in Socks :
      /\ Cardinality(OpenStreams(k)) <= 1
      /\ k \in DOMAIN active_connections => Cardinality(RunningRelays(k)) <= 1
      /\ k \notin DOMAIN active_connections => OpenStreams(k) = {}

----------------------------------------------------------------------------
(* Properties of the sidecar: the command protocol *)

TerminatingTypes == {"command_complete", "error"}

\* the trace of a command that was accepted: command_start, then outputs,
\* then (when the command is over) one terminating message
StartedTrace(trace, done) ==
    /\ Len(trace) >= 1
    /\ trace[1] = "command_start"
    /\ \A i \in 2..Len(trace) :
         \/ trace[i] = "output"
         \/ i = Len(trace) /\ done /\ trace[i] \in TerminatingTypes
    /\ done => Len(trace) >= 2 /\ trace[Len(trace)] \in TerminatingTypes

\* C23: a command message whose text starts with gam and holds no dangerous
\* character is sent one command_start first, then outputs only, then one
\* terminating message (command_complete or error) and nothing after it; any
\* other command message is sent exactly one error, no command_start, and no
\* subprocess is started for it.
C23_CommandProtocolOrdering ==
    \A w \in WebSockets :
      LET ws == websockets[w] IN
      \A i \in DOMAIN ws.runs :
        LET run == ws.runs[i] IN
        /\ (i < Len(ws.runs) \/ ws.pc = "idle") <=> run.done
        /\ (run.command.gam /\ ~run.command.dangerous)
             => StartedTrace(run.trace, run.done)
        /\ ~(run.command.gam /\ ~run.command.dangerous)
             => /\ run.trace = <<"error">>
                /\ ~run.spawned

\* one connection had a command rejected by the validation and then a command
\* that printed a line and completed
C23_Witness ==
    \E w \in WebSockets :
      LET ws == websockets[w] IN
      /\ Len(ws.runs) = 2
      /\ ws.runs[1].command.dangerous
      /\ ws.runs[1].trace = <<"error">>
      /\ ws.runs[2].spawned
      /\ ws.runs[2].trace = <<"command_start", "output", "command_complete">>

\* C30: a cancel message that named a command which was running when the
\* client sent it is answered with success.
C30_CancelReachesRunningCommand ==
    \A w \in WebSockets :
      LET ws == websockets[w] IN
      \A i \in DOMAIN ws.cancels : ws.cancels[i].live => ws.cancels[i].success

============================================================================
